---------------------------- MODULE Spec2Model ----------------------------
(***************************************************************************)
(* Model of the profile ingestion pipeline of Instagram-scraper:           *)
(*   python-scraper/db_handler.py  DatabaseHandler (connect, disconnect,   *)
(*                                 upsert_profile, upsert_profiles_batch,  *)
(*                                 get_all_profiles,                       *)
(*                                 get_profile_by_username)                *)
(*   python-scraper/scraper.py     InstagramScraper and the driver block   *)
(*                                                                         *)
(* The PostgreSQL table "profiles" is a set of rows.  The handler talks to *)
(* it over one psycopg2 connection that is not in autocommit mode: the     *)
(* first statement after a commit or rollback opens a transaction, and     *)
(* CURRENT_TIMESTAMP is the start time of that transaction.                *)
(*                                                                         *)
(* Modelling assumptions about the collaborators (psycopg2, PostgreSQL):   *)
(*   - a statement is atomic: a statement that fails changes nothing;      *)
(*   - an INSERT .. ON CONFLICT DO UPDATE statement that proposes the same *)
(*     key twice fails ("command cannot affect row a second time");        *)
(*   - a commit that raises has committed nothing;                         *)
(*   - rollback() raises exactly when the connection is not usable (None,  *)
(*     closed, or lost), and a lost connection aborts its transaction.     *)
(***************************************************************************)
EXTENDS Integers, Sequences, FiniteSets, TLC

VARIABLES
    table,       \* committed rows of the table "profiles"
    connection,  \* self.connection / self.cursor: "none", "open", "closed", "lost"
    txn,         \* transaction status of the connection: "idle", "active", "aborted"
    txnStart,    \* start time of the open transaction (CURRENT_TIMESTAMP)
    now,         \* the store's clock
    call,        \* the last handler call: operation, result, and (when
                 \* recorded in full) arguments and the store before it
    pc,          \* position of the driver block of scraper.py
    usernames,   \* the list given to scrape_multiple_profiles
    idx,         \* loop index of scrape_multiple_profiles (1-based)
    results,     \* list of scraped profile dicts
    outcomes,    \* per processed position, what get_profile_data saw
    log,         \* sequence of "fetch" / "sleep" events of the fetch loop
    elapsed,     \* time slept so far in the fetch loop
    report,      \* the <<len(results), total>> printed by the scraper
    run          \* driver bookkeeping: exit code, connection use, store at start

dbVars == <<table, connection, txn, txnStart, now, call>>
runVars == <<pc, usernames, idx, results, outcomes, log, elapsed, report, run>>
vars == <<table, connection, txn, txnStart, now, call,
          pc, usernames, idx, results, outcomes, log, elapsed, report, run>>

-----------------------------------------------------------------------------
(* Bounds of the model *)

MaxTime == 1
MaxBatch == 2
MaxUsers == 3

(* Program constants *)

wait_time == 3
page_size == 100

-----------------------------------------------------------------------------
(* Input values *)

Usernames == {"a", "b"}

Fields == {"username", "followers", "following", "posts_count", "engagement"}

\* profile dicts handed to the handler: with and without 'engagement', one
\* with a negative count, and one that lacks the 'followers' key
ProfileDicts ==
    { [username |-> "a", followers |-> 1, following |-> 3, posts_count |-> 5],
      [username |-> "a", followers |-> 2, following |-> 4, posts_count |-> 6,
       engagement |-> 7],
      [username |-> "b", followers |-> 1, following |-> 4, posts_count |-> 5,
       engagement |-> 7],
      [username |-> "b", followers |-> -1, following |-> 3, posts_count |-> 5],
      [username |-> "a", following |-> 3, posts_count |-> 5] }

RECURSIVE SeqsUpTo(_, _)
SeqsUpTo(S, n) ==
    IF n = 0 THEN {<<>>}
    ELSE LET shorter == SeqsUpTo(S, n - 1)
         IN shorter \cup {Append(s, x) : s \in {t \in shorter : Len(t) = n - 1}, x \in S}

Faults == {"none", "stmt", "commit", "lost_stmt", "lost_commit"}

-----------------------------------------------------------------------------
(* Python values returned by the handler *)

PyBool(b) == [type |-> "bool", val |-> b]
PyNone == [type |-> "NoneType", val |-> <<>>]
PyRaise == [type |-> "exception", val |-> <<>>]
PyDict(d) == [type |-> "dict", val |-> d]
PyList(s) == [type |-> "list", val |-> s]

NoCall == [op |-> "none", full |-> FALSE]

-----------------------------------------------------------------------------
(* The table "profiles" and its statements *)

\* (mutant) a table without the constraints
CheckConstraintsNone(v) == TRUE

\* columns followers, following, posts_count are integer >= 0
CheckConstraints(v) ==
    v.followers >= 0 /\ v.following >= 0 /\ v.posts_count >= 0

\* the column default of last_updated
LastUpdatedDefault(ts) == ts

NewRow(v, ts) ==
    [username |-> v.username, followers |-> v.followers, following |-> v.following,
     posts_count |-> v.posts_count, engagement |-> v.engagement, last_updated |-> ts]

\* (mutant) DO UPDATE SET that leaves out following
DoUpdateNoFollowing(x, v, ts) ==
    [x EXCEPT !.followers = v.followers, !.posts_count = v.posts_count,
              !.engagement = v.engagement, !.last_updated = ts]

\* (mutant) DO UPDATE SET that leaves out engagement
DoUpdateNoEngagement(x, v, ts) ==
    [x EXCEPT !.followers = v.followers, !.following = v.following,
              !.posts_count = v.posts_count, !.last_updated = ts]

\* DO UPDATE SET followers = EXCLUDED.followers, ..., last_updated = CURRENT_TIMESTAMP
DoUpdate(x, v, ts) ==
    [x EXCEPT !.followers = v.followers, !.following = v.following,
              !.posts_count = v.posts_count, !.engagement = v.engagement,
              !.last_updated = ts]

\* (mutant) INSERT without the ON CONFLICT clause taking effect
InsertPlain(tbl, v, insTs, ts) == tbl \cup {NewRow(v, insTs)}

\* INSERT one proposed row v ... ON CONFLICT (username) DO UPDATE ...
InsertOnConflict(tbl, v, insTs, ts) ==
    IF \E x \in tbl : x.username = v.username
    THEN {IF x.username = v.username THEN DoUpdate(x, v, ts) ELSE x : x \in tbl}
    ELSE tbl \cup {NewRow(v, insTs)}

\* one INSERT statement proposing the rows vals; touched = keys this statement
\* has already inserted or updated.  [ok, table]
RECURSIVE InsertRows(_, _, _, _, _)
InsertRows(tbl, vals, insTs, ts, touched) ==
    IF vals = <<>> THEN [ok |-> TRUE, table |-> tbl]
    ELSE LET v == Head(vals)
         IN IF ~CheckConstraints(v) \/ v.username \in touched
            THEN [ok |-> FALSE, table |-> tbl]
            ELSE InsertRows(InsertOnConflict(tbl, v, insTs, ts), Tail(vals),
                            insTs, ts, touched \cup {v.username})

\* a statement is atomic: a failed statement leaves the working copy alone
Statement(tbl, vals, insTs, ts) ==
    LET r == InsertRows(tbl, vals, insTs, ts, {})
    IN IF r.ok THEN r ELSE [ok |-> FALSE, table |-> tbl]

\* psycopg2.extras._paginate
RECURSIVE Paginate(_, _)
Paginate(seq, size) ==
    IF seq = <<>> THEN <<>>
    ELSE IF Len(seq) <= size THEN <<seq>>
    ELSE <<SubSeq(seq, 1, size)>> \o Paginate(SubSeq(seq, size + 1, Len(seq)), size)

\* psycopg2.extras.execute_values: one statement per page, stop at the first error
RECURSIVE ExecutePages(_, _, _)
ExecutePages(tbl, pages, ts) ==
    IF pages = <<>> THEN [ok |-> TRUE, table |-> tbl]
    ELSE LET r == Statement(tbl, Head(pages), LastUpdatedDefault(ts), ts)
         IN IF r.ok THEN ExecutePages(r.table, Tail(pages), ts) ELSE r

execute_values(tbl, values, ts) == ExecutePages(tbl, Paginate(values, page_size), ts)

\* what the store shows once the transaction is rolled back / committed
\* (RollbackKeeps, CommitLoses: mutants)
RollbackKeeps(committed, working) == working
Rollback(committed, working) == committed

CommitLoses(committed, working) == committed
Commit(committed, working) == working


-----------------------------------------------------------------------------
(* DatabaseHandler.  Each method is an operator from the current state and   *)
(* its inputs to its effect: the new table, connection and transaction, and  *)
(* what it returns.                                                          *)

\* (mutant) the default is not stored in the dict
NormalizeNothing(profile_data) == profile_data

\* if 'engagement' not in profile_data: profile_data['engagement'] = 0
Normalize(profile_data) ==
    IF "engagement" \in DOMAIN profile_data THEN profile_data
    ELSE profile_data @@ [engagement |-> 0]

\* profile_data['username'], ..., profile_data['engagement'] raise KeyError
KeyError(profile_data) == ~(Fields \subseteq DOMAIN profile_data)

\* CURRENT_TIMESTAMP of a statement run now: the start of its transaction
CurrentTimestamp == IF txn = "idle" THEN now ELSE txnStart

Usable == connection = "open"

Effect(tbl, conn, tx, start, ret) ==
    [table |-> tbl, connection |-> conn, txn |-> tx, txnStart |-> start, ret |-> ret]

connect(ok) ==
    IF ok THEN Effect(table, "open", "idle", 0, PyBool(TRUE))
    ELSE Effect(table, connection, txn, txnStart, PyBool(FALSE))

disconnect ==
    Effect(table, IF connection = "none" THEN "none" ELSE "closed", "idle", 0, PyNone)

upsert_profile(profile_data, fault) ==
    LET data == Normalize(profile_data)
        ts == CurrentTimestamp
        \* what the call leaves: the dict as mutated, the printed summary
        left(saved, e) == [data |-> data, saved |-> saved] @@ e
        \* the except block: rollback, return False
        failed(working) ==
            left(<<>>, Effect(Rollback(table, working), connection, "idle", 0,
                              PyBool(FALSE)))
    IN  IF ~Usable
        THEN \* execute raises, and so does rollback in the except block
             left(<<>>, Effect(table, connection, txn, txnStart, PyRaise))
        ELSE IF KeyError(data) \/ txn = "aborted" \/ fault = "stmt"
                \/ (fault # "lost_stmt" /\ ~Statement(table, <<data>>, ts, ts).ok)
        THEN \* execute raises
             failed(table)
        ELSE IF fault \in {"lost_stmt", "lost_commit"}
        THEN \* the connection is lost in execute or in commit; rollback raises
             left(<<>>, Effect(table, "lost", "idle", 0, PyRaise))
        ELSE LET working == Statement(table, <<data>>, ts, ts).table
                 \* RETURNING username, followers, engagement
                 result == <<data.username, data.followers, data.engagement>>
             IN  IF fault = "commit"
                 THEN \* commit raises
                      failed(working)
                 ELSE left(result, Effect(Commit(table, working), connection,
                                          "idle", 0, PyBool(TRUE)))

upsert_profiles_batch(profiles_data, fault) ==
    LET data == [i \in 1..Len(profiles_data) |-> Normalize(profiles_data[i])]
        ts == CurrentTimestamp
        none == data = <<>>   \* execute_values runs no statement
        failed(working) ==
            Effect(Rollback(table, working), connection, "idle", 0, PyBool(FALSE))
    IN  [data |-> data] @@
        IF ~Usable
        THEN Effect(table, connection, txn, txnStart, PyRaise)
        ELSE IF \E i \in 1..Len(data) : KeyError(data[i])
        THEN \* building values raises
             failed(table)
        ELSE IF ~none /\ (txn = "aborted" \/ fault = "stmt")
        THEN failed(table)
        ELSE IF ~none /\ fault = "lost_stmt"
        THEN Effect(table, "lost", "idle", 0, PyRaise)
        ELSE LET r == execute_values(table, data, ts)
             IN  IF ~r.ok THEN failed(r.table)
                 ELSE IF fault = "lost_commit"
                 THEN Effect(table, "lost", "idle", 0, PyRaise)
                 ELSE IF fault = "commit" THEN failed(r.table)
                 ELSE Effect(Commit(table, r.table), connection, "idle", 0, PyBool(TRUE))

\* (mutant) ORDER BY followers, ascending
OrderedAscending(tbl) ==
    {s \in [1..Cardinality(tbl) -> tbl] :
        /\ \A i, j \in DOMAIN s : i # j => s[i] # s[j]
        /\ \A i, j \in DOMAIN s : i < j => s[i].followers <= s[j].followers}

\* the orders ORDER BY followers DESC may return the rows of tbl in
Ordered(tbl) ==
    {s \in [1..Cardinality(tbl) -> tbl] :
        /\ \A i, j \in DOMAIN s : i # j => s[i] # s[j]
        /\ \A i, j \in DOMAIN s : i < j => s[i].followers >= s[j].followers}

ReadFaults == {"none", "stmt", "lost_stmt"}

\* cursor.execute of a SELECT; ret tells whether it raised
Select(fault) ==
    IF ~Usable \/ txn = "aborted"
    THEN Effect(table, connection, txn, txnStart, PyRaise)
    ELSE IF fault = "lost_stmt" THEN Effect(table, "lost", "idle", 0, PyRaise)
    ELSE IF fault = "stmt"
    THEN Effect(table, connection, "aborted", CurrentTimestamp, PyRaise)
    ELSE Effect(table, connection, "active", CurrentTimestamp, PyNone)

\* the set of effects get_all_profiles may have; error tells whether the
\* except block ran and printed its line
get_all_profiles(fault) ==
    LET r == Select(fault)
        error == [error |-> r.ret = PyRaise]
    IN  IF r.ret = PyRaise THEN {error @@ [r EXCEPT !.ret = PyList(<<>>)]}
        ELSE {error @@ [r EXCEPT !.ret = PyList(profiles)] : profiles \in Ordered(table)}

get_profile_by_username(username, fault) ==
    LET r == Select(fault)
        error == [error |-> r.ret = PyRaise]
        found == {x \in table : x.username = username}
    IN  IF r.ret = PyRaise \/ found = {} THEN {error @@ [r EXCEPT !.ret = PyNone]}
        ELSE {error @@ [r EXCEPT !.ret = PyDict(x)] : x \in found}

\* the handler's fields and the store after a call
Apply(e) ==
    /\ table' = e.table
    /\ connection' = e.connection
    /\ txn' = e.txn
    /\ txnStart' = e.txnStart

-----------------------------------------------------------------------------
(* Spec: the handler under any sequence of calls, from construction *)

Idle ==
    /\ pc = "lib"
    /\ usernames = <<>>
    /\ idx = 0
    /\ results = <<>>
    /\ outcomes = <<>>
    /\ log = <<>>
    /\ elapsed = 0
    /\ report = <<>>
    /\ run = <<>>

Init ==
    /\ table = {}
    /\ connection = "none"
    /\ txn = "idle"
    /\ txnStart = 0
    /\ now = 0
    /\ call = NoCall
    /\ Idle

\* what is kept of a call: always the operation and the result; for one call
\* of a behaviour also the input as passed (arg0) and as left (arg), the
\* injected fault, CURRENT_TIMESTAMP and the time of the call, what was
\* printed (saved, error), and the store, connection and transaction status
\* before the call.  Such a call is the last of the behaviour, or the last
\* but one when it is an upsert that returned True: what is kept of the call
\* that follows it includes what was kept of it (first).
Short(op, e) == [op |-> op, ret |-> e.ret, full |-> FALSE]

Full(op, arg0, fault, e, first) ==
    [op |-> op, ret |-> e.ret, full |-> TRUE, arg0 |-> arg0, arg |-> e.data,
     fault |-> fault, ts |-> CurrentTimestamp, now |-> now, pre |-> table,
     saved |-> e.saved, conn |-> connection, tx |-> txn, first |-> first]

FullRead(op, arg0, fault, e, first) ==
    [op |-> op, ret |-> e.ret, full |-> TRUE, arg0 |-> arg0, fault |-> fault,
     error |-> e.error, now |-> now, pre |-> table, conn |-> connection,
     tx |-> txn, first |-> first]

Record(full, op, arg0, fault, e) ==
    IF full THEN Full(op, arg0, fault, e, NoCall) ELSE Short(op, e)

RecordRead(full, op, arg0, fault, e) ==
    IF call.full THEN FullRead(op, arg0, fault, e, call)
    ELSE IF full THEN FullRead(op, arg0, fault, e, NoCall)
    ELSE Short(op, e)

\* the call kept in full is an upsert that returned True, and no call
\* followed it
Committed ==
    /\ call.full
    /\ call.first = NoCall
    /\ call.op \in {"upsert_profile", "upsert_profiles_batch"}
    /\ call.ret = PyBool(TRUE)

Tick ==
    /\ ~call.full \/ Committed
    /\ now < MaxTime
    /\ now' = now + 1
    /\ UNCHANGED <<table, connection, txn, txnStart, call>>
    /\ UNCHANGED runVars

Connect ==
    /\ ~call.full
    /\ \E ok \in BOOLEAN :
          LET e == connect(ok) IN Apply(e) /\ call' = Short("connect", e)
    /\ UNCHANGED now /\ UNCHANGED runVars

Disconnect ==
    /\ ~call.full
    /\ LET e == disconnect IN Apply(e) /\ call' = Short("disconnect", e)
    /\ UNCHANGED now /\ UNCHANGED runVars

UpsertProfile ==
    /\ ~call.full
    /\ \E profile_data \in ProfileDicts, fault \in Faults, full \in BOOLEAN :
          LET e == upsert_profile(profile_data, fault)
          IN /\ Apply(e)
             /\ call' = Record(full, "upsert_profile", profile_data, fault, e)
    /\ UNCHANGED now /\ UNCHANGED runVars

UpsertProfilesBatch ==
    /\ ~call.full
    /\ \E profiles_data \in SeqsUpTo(ProfileDicts, MaxBatch), fault \in Faults,
          full \in BOOLEAN :
          LET e == [saved |-> <<>>] @@ upsert_profiles_batch(profiles_data, fault)
          IN /\ Apply(e)
             /\ call' = Record(full, "upsert_profiles_batch", profiles_data, fault, e)
    /\ UNCHANGED now /\ UNCHANGED runVars

\* the same call once more, with the input as it was passed the first time
\* or as the first call left it
Again ==
    /\ Committed
    /\ \E input \in {call.arg0, call.arg}, fault \in Faults :
          LET e == IF call.op = "upsert_profile"
                   THEN upsert_profile(input, fault)
                   ELSE [saved |-> <<>>] @@ upsert_profiles_batch(input, fault)
          IN /\ Apply(e)
             /\ call' = Full(call.op, input, fault, e, call)
    /\ UNCHANGED now /\ UNCHANGED runVars

GetAllProfiles ==
    /\ ~call.full \/ Committed
    /\ \E fault \in ReadFaults, full \in BOOLEAN :
          \E e \in get_all_profiles(fault) :
              /\ Apply(e)
              /\ call' = RecordRead(full, "get_all_profiles", <<>>, fault, e)
    /\ UNCHANGED now /\ UNCHANGED runVars

GetProfileByUsername ==
    /\ ~call.full \/ Committed
    /\ \E username \in Usernames, fault \in ReadFaults, full \in BOOLEAN :
          \E e \in get_profile_by_username(username, fault) :
              /\ Apply(e)
              /\ call' = RecordRead(full, "get_profile_by_username", username,
                                    fault, e)
    /\ UNCHANGED now /\ UNCHANGED runVars

Next ==
    \/ Tick
    \/ Connect
    \/ Disconnect
    \/ UpsertProfile
    \/ UpsertProfilesBatch
    \/ Again
    \/ GetAllProfiles
    \/ GetProfileByUsername

Spec == Init /\ [][Next]_vars

-----------------------------------------------------------------------------
(* InstagramScraper *)

\* what Profile.from_username does: a profile, or one of the exceptions
Metrics == {<<1, 3, 5>>, <<2, 4, 6>>}

\* str(e) of an exception of no special class
Messages == {"429 Too Many Requests", "timed out"}

Replies ==
    {[kind |-> "Profile", metrics |-> m, message |-> ""] : m \in Metrics}
    \cup {[kind |-> k, metrics |-> <<>>, message |-> k] :
             k \in {"ProfileNotExistsException",
                    "PrivateProfileNotFollowedException",
                    "LoginRequiredException"}}
    \cup {[kind |-> "Exception", metrics |-> <<>>, message |-> m] : m \in Messages}

\* the dict or None get_profile_data returns
get_profile_data(username, reply, clock) ==
    IF reply.kind = "Profile"
    THEN PyDict([username |-> username, followers |-> reply.metrics[1],
                 following |-> reply.metrics[2], posts_count |-> reply.metrics[3],
                 scraped_at |-> clock])
    ELSE PyNone

\* (mutant) "except Exception" ahead of the clauses of the special classes
ErrorLineGeneric(username, reply) ==
    IF reply.kind = "Profile" THEN <<>>
    ELSE <<"Error scraping", username, reply.message>>

\* the line the except clause that catches the reply prints
ErrorLine(username, reply) ==
    CASE reply.kind = "Profile" -> <<>>
      [] reply.kind = "ProfileNotExistsException" -> <<"does not exist", username>>
      [] reply.kind = "PrivateProfileNotFollowedException" -> <<"is private", username>>
      [] reply.kind = "LoginRequiredException" -> <<"Login required", username>>
      [] OTHER -> <<"Error scraping", username, reply.message>>

\* (mutant) results = [data] + results
CollectInFront(res, data) == IF data.type = "dict" THEN <<data.val>> \o res ELSE res

\* if data: results.append(data)
Collect(res, data) == IF data.type = "dict" THEN Append(res, data.val) ELSE res

\* (mutant) if idx <= total
NeedsWaitAlways(i, total) == i <= total

\* if idx < total: time.sleep(wait_time)
NeedsWait(i, total) == i < total

\* (mutant) a failed fetch is tried again
NextPositionRetry(i, data) == IF data = PyNone THEN i ELSE i + 1

\* for idx, username in enumerate(usernames, 1): the position after i,
\* whatever the fetch of position i gave
NextPosition(i, data) == i + 1

\* for profile in results: profile['engagement'] = 0
SetEngagement(res) == [k \in DOMAIN res |-> [engagement |-> 0] @@ res[k]]

-----------------------------------------------------------------------------
(* SpecRun: one run of the driver block of scraper.py, over any list of     *)
(* usernames and a store left by earlier runs                               *)

InitialStores ==
    { {},
      { [username |-> "a", followers |-> 2, following |-> 4, posts_count |-> 6,
         engagement |-> 7, last_updated |-> 0],
        [username |-> "b", followers |-> 1, following |-> 4, posts_count |-> 5,
         engagement |-> 7, last_updated |-> 0] } }

InitRun ==
    /\ table \in InitialStores
    /\ connection = "none"
    /\ txn = "idle"
    /\ txnStart = 0
    /\ now = 1
    /\ call = NoCall
    /\ pc = "fetch"
    /\ usernames \in SeqsUpTo(Usernames, MaxUsers)
    /\ idx = 1
    /\ results = <<>>
    /\ outcomes = <<>>
    /\ log = <<>>
    /\ elapsed = 0
    /\ report = <<>>
    /\ run = [code |-> -1, acquired |-> 0, interrupted |-> FALSE,
              connected |-> "not called", batch |-> "not called", store0 |-> table]

\* one iteration of the loop of scrape_multiple_profiles, up to the sleep
Fetch ==
    /\ pc = "fetch"
    /\ idx <= Len(usernames)
    /\ \E reply \in Replies :
          LET data == get_profile_data(usernames[idx], reply, elapsed)
          IN  /\ results' = Collect(results, data)
              /\ outcomes' = Append(outcomes,
                     [username |-> usernames[idx], reply |-> reply, data |-> data,
                      printed |-> ErrorLine(usernames[idx], reply)])
    /\ log' = Append(log, "fetch")
    /\ IF NeedsWait(idx, Len(usernames))
       THEN pc' = "sleep" /\ idx' = idx
       ELSE pc' = "fetch" /\ idx' = NextPosition(idx, outcomes'[Len(outcomes')].data)
    /\ UNCHANGED <<usernames, elapsed, report, run>>
    /\ UNCHANGED dbVars

\* time.sleep(wait_time), then the next iteration
Sleep ==
    /\ pc = "sleep"
    /\ elapsed' = elapsed + wait_time
    /\ log' = Append(log, "sleep")
    /\ idx' = NextPosition(idx, outcomes[Len(outcomes)].data)
    /\ pc' = "fetch"
    /\ UNCHANGED <<usernames, results, outcomes, report, run>>
    /\ UNCHANGED dbVars

\* the loop is over: print the count, return results
Return ==
    /\ pc = "fetch"
    /\ idx > Len(usernames)
    /\ report' = <<Len(results), Len(usernames)>>
    /\ pc' = "main"
    /\ UNCHANGED <<usernames, idx, results, outcomes, log, elapsed, run>>
    /\ UNCHANGED dbVars

\* main() returns results; without results the driver exits with code 1
Main ==
    /\ pc = "main"
    /\ IF results # <<>>
       THEN pc' = "connect" /\ run' = run
       ELSE pc' = "exit" /\ run' = [run EXCEPT !.code = 1]
    /\ UNCHANGED <<usernames, idx, results, outcomes, log, elapsed, report>>
    /\ UNCHANGED dbVars

\* db = DatabaseHandler(); if db.connect(): ... else: ...; sys.exit(0 if results else 1)
DbConnect ==
    /\ pc = "connect"
    /\ \E ok \in BOOLEAN :
          LET e == connect(ok)
          IN  /\ Apply(e)
              /\ call' = Short("connect", e)
              /\ IF ok
                 THEN /\ pc' = "save"
                      /\ run' = [run EXCEPT !.acquired = @ + 1, !.connected = "True"]
                 ELSE /\ pc' = "exit"
                      /\ run' = [run EXCEPT !.connected = "False",
                                            !.code = IF results # <<>> THEN 0 ELSE 1]
    /\ UNCHANGED now
    /\ UNCHANGED <<usernames, idx, results, outcomes, log, elapsed, report>>

\* set engagement, db.upsert_profiles_batch(results); an exception it raises
\* is caught by "except Exception" of the driver: sys.exit(1)
DbSave ==
    /\ pc = "save"
    /\ \E fault \in Faults :
          LET e == upsert_profiles_batch(SetEngagement(results), fault)
          IN  /\ Apply(e)
              /\ call' = Short("upsert_profiles_batch", e)
              /\ results' = e.data
              /\ IF e.ret = PyRaise
                 THEN /\ pc' = "exit"
                      /\ run' = [run EXCEPT !.batch = "raised", !.code = 1]
                 ELSE /\ pc' = "disconnect"
                      /\ run' = [run EXCEPT !.batch =
                                    IF e.ret = PyBool(TRUE) THEN "True" ELSE "False"]
    /\ UNCHANGED now
    /\ UNCHANGED <<usernames, idx, outcomes, log, elapsed, report>>

\* db.disconnect(); sys.exit(0 if results else 1)
DbDisconnect ==
    /\ pc = "disconnect"
    /\ LET e == disconnect IN Apply(e) /\ call' = Short("disconnect", e)
    /\ pc' = "exit"
    /\ run' = [run EXCEPT !.code = IF results # <<>> THEN 0 ELSE 1]
    /\ UNCHANGED now
    /\ UNCHANGED <<usernames, idx, results, outcomes, log, elapsed, report>>

\* (mutant) an interrupt handler that saves what was fetched so far
InterruptSaves ==
    /\ pc # "exit"
    /\ pc' = "exit"
    /\ run' = [run EXCEPT !.interrupted = TRUE, !.code = 1]
    /\ table' = execute_values(table, SetEngagement(results), now).table
    /\ results' = IF report = <<>> THEN <<>> ELSE results
    /\ UNCHANGED <<usernames, idx, outcomes, log, elapsed, report>>
    /\ UNCHANGED <<connection, txn, txnStart, now, call>>

\* KeyboardInterrupt, at any point of the run: sys.exit(1).  Inside
\* scrape_multiple_profiles it unwinds the frame that holds results.
Interrupt ==
    /\ pc # "exit"
    /\ pc' = "exit"
    /\ run' = [run EXCEPT !.interrupted = TRUE, !.code = 1]
    /\ results' = IF report = <<>> THEN <<>> ELSE results
    /\ UNCHANGED <<usernames, idx, outcomes, log, elapsed, report>>
    /\ UNCHANGED dbVars

NextRun ==
    \/ Fetch
    \/ Sleep
    \/ Return
    \/ Main
    \/ DbConnect
    \/ DbSave
    \/ DbDisconnect
    \/ Interrupt

SpecRun == InitRun /\ [][NextRun]_vars

-----------------------------------------------------------------------------
(* Vocabulary of the properties *)

RowsOf(tbl, u) == {x \in tbl : x.username = u}

\* the engagement a dict stands for: its own, or 0 when it has none
EngagementOf(r) == IF "engagement" \in DOMAIN r THEN r.engagement ELSE 0

\* row x holds the values of dict r
Holds(x, r) ==
    /\ x.username = r.username
    /\ x.followers = r.followers
    /\ x.following = r.following
    /\ x.posts_count = r.posts_count
    /\ x.engagement = EngagementOf(r)

WellFormed(r) == {"username", "followers", "following", "posts_count"} \subseteq DOMAIN r

Valid(r) == WellFormed(r) /\ r.followers >= 0 /\ r.following >= 0 /\ r.posts_count >= 0

\* the last position of seq holding the username of seq[i]
LastOf(seq, i) ==
    CHOOSE j \in DOMAIN seq :
        /\ seq[j].username = seq[i].username
        /\ \A k \in DOMAIN seq : seq[k].username = seq[i].username => k <= j

IsOne == call.full /\ call.op = "upsert_profile"
IsBatch == call.full /\ call.op = "upsert_profiles_batch"
ReturnedTrue == call.ret = PyBool(TRUE)
ReturnedFalse == call.ret = PyBool(FALSE)
Raised == call.ret.type = "exception"

-----------------------------------------------------------------------------
(* C1: upsert_profiles_batch is all-or-nothing.  After the call, either it  *)
(* returned True and every record of the batch is in the store with its     *)
(* values (those of the last record of its username), or it failed, by      *)
(* returning False or by raising, and the store equals the store before.    *)

C1_BatchAllOrNothing ==
    IsBatch =>
        \/ /\ ReturnedTrue
           /\ \A i \in DOMAIN call.arg0 :
                 \E x \in table : Holds(x, call.arg0[LastOf(call.arg0, i)])
        \/ /\ ReturnedFalse \/ Raised
           /\ table = call.pre

\* a batch whose first record is new and valid and whose second violates the
\* constraint followers >= 0: nothing of it is in the store
C1_Witness ==
    /\ IsBatch /\ ReturnedFalse /\ call.fault = "none"
    /\ Len(call.arg0) = 2
    /\ Valid(call.arg0[1]) /\ RowsOf(call.pre, call.arg0[1].username) = {}
    /\ WellFormed(call.arg0[2]) /\ call.arg0[2].followers < 0
    /\ call.pre # {}
    /\ table = call.pre

(* C2: a successful upsert_profile(r) inserts or updates by username: the   *)
(* store then has exactly one record of r.username, with r's followers,     *)
(* following, posts_count and engagement and last_updated set to            *)
(* CURRENT_TIMESTAMP (not before the old value); the number of records      *)
(* grows by one if the username was absent and is unchanged otherwise; the  *)
(* records of every other username are unchanged.                           *)

C2_UpsertOne ==
    (IsOne /\ ReturnedTrue) =>
        LET r == call.arg0
            old == RowsOf(call.pre, r.username)
            new == RowsOf(table, r.username)
        IN  /\ Cardinality(new) = 1
            /\ \A x \in new : Holds(x, r) /\ x.last_updated = call.ts
            /\ \A x \in new, o \in old : x.last_updated >= o.last_updated
            /\ Cardinality(table) = Cardinality(call.pre) + (IF old = {} THEN 1 ELSE 0)
            /\ table \ new = call.pre \ old

\* an update of an existing record that changes every field, beside a record
\* of another username
C2_Witness ==
    /\ IsOne /\ ReturnedTrue
    /\ \E o \in RowsOf(call.pre, call.arg0.username) :
          /\ o.followers # call.arg0.followers
          /\ o.following # call.arg0.following
          /\ o.posts_count # call.arg0.posts_count
          /\ o.engagement # EngagementOf(call.arg0)
          /\ o.last_updated < call.ts
    /\ \E x \in table : x.username # call.arg0.username

(* C3: when a username appears more than once in one batch, given to a      *)
(* usable connection with no fault injected and only valid records, the     *)
(* call returns True and the stored record holds the last occurrence.       *)

C3_LastWriteWins ==
    ( /\ IsBatch
      /\ call.conn = "open" /\ call.tx # "aborted" /\ call.fault = "none"
      /\ \A i \in DOMAIN call.arg0 : Valid(call.arg0[i])
      /\ \E i, j \in DOMAIN call.arg0 :
            i < j /\ call.arg0[i].username = call.arg0[j].username )
    => /\ ReturnedTrue
       /\ \A i \in DOMAIN call.arg0 :
             \E x \in table : Holds(x, call.arg0[LastOf(call.arg0, i)])

(* C4: exit contract of the driver.  A run that has exited has code 0 only  *)
(* if a profile was fetched and the batch was committed; a run with no      *)
(* data, a failed connection, a failed batch write or an interrupt has      *)
(* code 1.                                                                  *)

C4_ExitContract ==
    pc = "exit" =>
        /\ run.code = 0 => (results # <<>> /\ run.batch = "True")
        /\ ( \/ results = <<>>
             \/ run.connected = "False"
             \/ run.batch \in {"False", "raised"}
             \/ run.interrupted ) => run.code = 1

(* C5: the connection is acquired at most once in a run, and no run has     *)
(* exited with the connection acquired and not closed.                      *)

C5_ConnectionReleased ==
    /\ run.acquired <= 1
    /\ pc = "exit" => connection \in {"none", "closed"}

(* C6: skip-and-continue.  When scrape_multiple_profiles has returned, every *)
(* username of the list was attempted, in order; results holds exactly the  *)
(* snapshots of the positions whose fetch succeeded, in input order; and    *)
(* the count printed is <<len(results), len(usernames)>>.                   *)

Returned == report # <<>>

Fetched(o) == o.reply.kind = "Profile"

C6_SkipAndContinue ==
    Returned =>
        LET ok == SelectSeq(outcomes, Fetched)
        IN  /\ Len(outcomes) = Len(usernames)
            /\ \A i \in DOMAIN outcomes : outcomes[i].username = usernames[i]
            /\ Len(results) = Len(ok)
            /\ \A k \in DOMAIN results :
                  /\ results[k].username = ok[k].username
                  /\ results[k].followers = ok[k].reply.metrics[1]
                  /\ results[k].following = ok[k].reply.metrics[2]
                  /\ results[k].posts_count = ok[k].reply.metrics[3]
            /\ report = <<Len(results), Len(usernames)>>

\* three usernames, the middle one does not exist: two snapshots, 2/3
C6_Witness ==
    /\ pc = "main"
    /\ usernames = <<"a", "b", "a">>
    /\ outcomes[2].reply.kind = "ProfileNotExistsException"
    /\ Len(results) = 2
    /\ results[1].username = "a" /\ results[1].followers = 1
    /\ results[2].username = "a" /\ results[2].followers = 2
    /\ report = <<2, 3>>

(* C7: rate-limit spacing.  In the event log of the loop a fetch is never   *)
(* followed by a fetch nor a sleep by a sleep, every sleep lasts 3, and     *)
(* when the loop has returned there were n - 1 sleeps for n >= 1 usernames  *)
(* (none for n = 0) and the last event, if any, is a fetch.                 *)

Sleeps == Len(SelectSeq(log, LAMBDA ev : ev = "sleep"))

C7_RateLimitSpacing ==
    /\ \A k \in 1..(Len(log) - 1) : log[k] # log[k + 1]
    /\ log # <<>> => log[1] = "fetch"
    /\ elapsed = 3 * Sleeps
    /\ Returned =>
          /\ Sleeps = (IF Len(usernames) >= 1 THEN Len(usernames) - 1 ELSE 0)
          /\ Len(log) = Len(usernames) + Sleeps
          /\ log # <<>> => log[Len(log)] = "fetch"

\* three usernames, the first fetch failed: two sleeps, 6 time units
C7_Witness ==
    /\ pc = "main"
    /\ Len(usernames) = 3
    /\ ~Fetched(outcomes[1])
    /\ log = <<"fetch", "sleep", "fetch", "sleep", "fetch">>
    /\ elapsed = 6

(* C8: upsert_profile and upsert_profiles_batch, called on a connection     *)
(* that is open, return a result whatever fails (statement, commit,         *)
(* rollback, connectivity): no exception leaves the call.                   *)

C8_NoExceptionEscapes ==
    ((IsOne \/ IsBatch) /\ call.conn = "open") => ~Raised

(* C9 as stated: upsert_profile that fails leaves the store as before; one  *)
(* that does not fail has committed the record and returns the summary      *)
(* <<username, followers, engagement>>.                                     *)

C9_ReturnsSummary ==
    IsOne =>
        \/ (ReturnedFalse \/ Raised) /\ table = call.pre
        \/ /\ \E x \in table : Holds(x, call.arg0)
           /\ call.ret.type = "tuple"
           /\ call.ret.val = <<call.arg0.username, call.arg0.followers,
                               EngagementOf(call.arg0)>>

(* C9 amended: upsert_profile that fails (returns False or raises) leaves   *)
(* the store as before; one that succeeds has committed the record, returns *)
(* True and has printed the summary <<username, followers, engagement>>.    *)

C9_OneTransaction ==
    IsOne =>
        \/ (ReturnedFalse \/ Raised) /\ table = call.pre /\ call.saved = <<>>
        \/ /\ ReturnedTrue
           /\ \E x \in table : Holds(x, call.arg0)
           /\ call.saved = <<call.arg0.username, call.arg0.followers,
                             EngagementOf(call.arg0)>>

\* a committed insert of a dict without engagement into a store that lacked it
C9_Witness ==
    /\ IsOne /\ ReturnedTrue
    /\ "engagement" \notin DOMAIN call.arg0
    /\ RowsOf(call.pre, call.arg0.username) = {}
    /\ call.saved = <<"a", 1, 0>>
    /\ table # call.pre

(* C10: the store never holds two records with the same username.           *)

C10_UniqueUsername ==
    \A x, y \in table : x.username = y.username => x = y

\* a batch of two records that updated the two records the store held
C10_Witness ==
    /\ IsBatch /\ ReturnedTrue
    /\ Len(call.arg0) = 2
    /\ \A i \in DOMAIN call.arg0 : RowsOf(call.pre, call.arg0[i].username) # {}
    /\ \E o \in call.pre : o \notin table
    /\ Cardinality(table) = 2

(* C11: idempotence.  When upsert_profile or upsert_profiles_batch has      *)
(* returned True and the same call is made once more with the same input,   *)
(* whatever the second call meets, the store after it has the records it    *)
(* had after the first call, equal in every field except last_updated.      *)

Strip(tbl) == {[k \in DOMAIN x \ {"last_updated"} |-> x[k]] : x \in tbl}

IsAgain ==
    /\ call.full
    /\ call.op \in {"upsert_profile", "upsert_profiles_batch"}
    /\ call.first # NoCall

C11_Idempotent ==
    IsAgain =>
        /\ Strip(table) = Strip(call.pre)
        /\ Cardinality(table) = Cardinality(call.pre)

\* a batch of two applied twice, the second time later: both returned True,
\* and only last_updated differs
C11_Witness ==
    /\ IsAgain /\ ReturnedTrue
    /\ call.op = "upsert_profiles_batch" /\ Len(call.arg0) = 2
    /\ call.now > call.first.now
    /\ table # call.pre
    /\ Strip(table) = Strip(call.pre)

(* C12: outcome classification.  Every reply of the profile source gets    *)
(* exactly the outcome of its kind: a profile gives the snapshot dict and   *)
(* no error line; ProfileNotExistsException, PrivateProfileNotFollowed-     *)
(* Exception and LoginRequiredException give None and the line of their     *)
(* own kind; any other exception gives None and the error line carrying     *)
(* str(e).  No failure gives a dict, and none goes without a line.          *)

Outcome(o) ==
    CASE o.data.type = "dict" /\ o.printed = <<>> -> <<"Success", o.data.val>>
      [] o.data = PyNone /\ o.printed = <<"does not exist", o.username>> -> <<"NotFound">>
      [] o.data = PyNone /\ o.printed = <<"is private", o.username>> -> <<"PrivateAccount">>
      [] o.data = PyNone /\ o.printed = <<"Login required", o.username>> -> <<"AuthRequired">>
      [] o.data = PyNone /\ Len(o.printed) = 3 /\ o.printed[1] = "Error scraping"
            /\ o.printed[2] = o.username -> <<"TransientError", o.printed[3]>>
      [] OTHER -> <<"none">>

C12_Classification ==
    \A i \in DOMAIN outcomes :
        LET o == outcomes[i]
        IN  Outcome(o) =
              CASE o.reply.kind = "Profile" ->
                     <<"Success", [username |-> o.username,
                                   followers |-> o.reply.metrics[1],
                                   following |-> o.reply.metrics[2],
                                   posts_count |-> o.reply.metrics[3],
                                   scraped_at |-> o.data.val.scraped_at]>>
                [] o.reply.kind = "ProfileNotExistsException" -> <<"NotFound">>
                [] o.reply.kind = "PrivateProfileNotFollowedException" -> <<"PrivateAccount">>
                [] o.reply.kind = "LoginRequiredException" -> <<"AuthRequired">>
                [] OTHER -> <<"TransientError", o.reply.message>>

\* a run that met a private profile, a login wall and a time-out
C12_Witness ==
    /\ Len(outcomes) = 3
    /\ Outcome(outcomes[1]) = <<"PrivateAccount">>
    /\ Outcome(outcomes[2]) = <<"AuthRequired">>
    /\ Outcome(outcomes[3]) = <<"TransientError", "timed out">>
    /\ results = <<>>

(* C13: within one run of scrape_multiple_profiles the positions of the    *)
(* list are fetched in input order, each exactly once and with one call of  *)
(* get_profile_data: at every moment the outcomes are those of the first    *)
(* positions of the list, one per position and one fetch event each, and a  *)
(* step either leaves the outcomes alone or adds the outcome of the next    *)
(* position; an outcome, failed or not, is never replaced nor fetched       *)
(* again.                                                                   *)

Fetches == Len(SelectSeq(log, LAMBDA ev : ev = "fetch"))

C13_Positions ==
    /\ Len(outcomes) <= Len(usernames)
    /\ \A i \in DOMAIN outcomes : outcomes[i].username = usernames[i]
    /\ Fetches = Len(outcomes)
    /\ pc = "fetch" => idx = Len(outcomes) + 1
    /\ pc = "sleep" => idx = Len(outcomes)

C13_Terminal ==
    \/ outcomes' = outcomes
    \/ /\ Len(outcomes') = Len(outcomes) + 1
       /\ SubSeq(outcomes', 1, Len(outcomes)) = outcomes
       /\ outcomes'[Len(outcomes')].username = usernames[Len(outcomes')]

C13_InOrderOnce == [](C13_Positions) /\ [][C13_Terminal]_vars

\* the list names "a" twice; its first fetch timed out and was left at that,
\* the fetch of the third position, "a" again, succeeded
C13_Witness ==
    /\ Returned
    /\ usernames = <<"a", "b", "a">>
    /\ Outcome(outcomes[1]) = <<"TransientError", "timed out">>
    /\ Fetched(outcomes[3])
    /\ Fetches = 3

(* C14: the fetch phase never touches persisted state.  Until the driver   *)
(* calls db.connect(), which it does only after the loop has returned, the  *)
(* store is the store before the run, no connection was opened and no       *)
(* handler method was called; a run interrupted inside the loop has exited  *)
(* with the store as before the run, no connection, no snapshot kept, and   *)
(* fewer outcomes than positions unless all were already fetched; and once  *)
(* interrupted, a run fetches and writes nothing more.                      *)

InFetchPhase == pc \in {"fetch", "sleep", "main", "connect"}

C14_Untouched ==
    /\ (InFetchPhase \/ ~Returned) =>
          /\ table = run.store0
          /\ connection = "none"
          /\ run.acquired = 0 /\ run.connected = "not called"
          /\ run.batch = "not called"
          /\ call = NoCall
    /\ (run.interrupted /\ ~Returned) =>
          /\ pc = "exit"
          /\ results = <<>>
          /\ Len(outcomes) \in {idx - 1, idx}

C14_Stopped == run.interrupted => (outcomes' = outcomes /\ table' = table)

C14_FetchPhaseFrame == [](C14_Untouched) /\ [][C14_Stopped]_vars

\* interrupted after two of three fetches, both successful, over a store
\* that held records
C14_Witness ==
    /\ pc = "exit" /\ run.interrupted /\ ~Returned
    /\ Len(usernames) = 3 /\ Len(outcomes) = 2
    /\ Fetched(outcomes[1]) /\ Fetched(outcomes[2])
    /\ results = <<>>
    /\ table = run.store0 /\ table # {}

(* C15: get_all_profiles and get_profile_by_username are pure reads: the   *)
(* store after the call is the store before it; get_profile_by_username of  *)
(* a username with no record returns None and does not raise; and None is   *)
(* returned only then, so that it tells "no record" from a record found     *)
(* and from a read that failed.                                             *)

IsGet == call.full /\ call.op = "get_profile_by_username"
IsList == call.full /\ call.op = "get_all_profiles"

C15_PureReads ==
    /\ (IsGet \/ IsList) => (table = call.pre /\ ~Raised)
    /\ IsGet =>
          /\ (~call.error /\ RowsOf(call.pre, call.arg0) = {}) => call.ret = PyNone
          /\ call.ret = PyNone => (~call.error /\ RowsOf(call.pre, call.arg0) = {})

(* C16: read consistency.  Right after upsert_profile(r) returned True, a   *)
(* read that meets no fault does not fail: get_profile_by_username of        *)
(* r.username returns a dict with r's username, followers, following,       *)
(* posts_count and engagement, and get_all_profiles returns every record of *)
(* the store once, r's among them, by followers descending.                 *)

AfterUpsertOne == call.first # NoCall /\ call.first.op = "upsert_profile"

C16_ReadConsistency ==
    /\ (IsGet /\ AfterUpsertOne /\ call.fault = "none"
            /\ call.arg0 = call.first.arg0.username) =>
          /\ ~call.error
          /\ call.ret.type = "dict"
          /\ Holds(call.ret.val, call.first.arg0)
    /\ (IsList /\ AfterUpsertOne /\ call.fault = "none") =>
          LET profiles == call.ret.val
          IN  /\ ~call.error
              /\ Len(profiles) = Cardinality(table)
              /\ {profiles[i] : i \in DOMAIN profiles} = table
              /\ \E i \in DOMAIN profiles : Holds(profiles[i], call.first.arg0)
              /\ \A i \in 1..(Len(profiles) - 1) :
                    profiles[i].followers >= profiles[i + 1].followers

\* the list read after an upsert that updated the record with fewer
\* followers: two records, the one just written second
C16_Witness ==
    /\ IsList /\ AfterUpsertOne /\ call.fault = "none"
    /\ RowsOf(call.first.pre, call.first.arg0.username) # {}
    /\ Len(call.ret.val) = 2
    /\ Holds(call.ret.val[2], call.first.arg0)
    /\ call.ret.val[1].followers > call.ret.val[2].followers

(* C17: for every username written by an upsert_profile or an               *)
(* upsert_profiles_batch that returned True, last_updated of its record is  *)
(* the time of the store at that call, and is not less than last_updated    *)
(* of the record the store held of it before.                               *)

Written(arg) ==
    IF call.op = "upsert_profile" THEN {arg.username}
    ELSE {arg[i].username : i \in DOMAIN arg}

C17_LastUpdatedIsNow ==
    ((IsOne \/ IsBatch) /\ ReturnedTrue) =>
        \A u \in Written(call.arg0) :
            \A x \in RowsOf(table, u) :
                /\ x.last_updated = call.now
                /\ \A o \in RowsOf(call.pre, u) : x.last_updated >= o.last_updated

(* C18: non-negativity.  Whatever upsert_profile and upsert_profiles_batch *)
(* were called with, every record of the store has followers >= 0,          *)
(* following >= 0 and posts_count >= 0.                                     *)

C18_NonNegative ==
    \A x \in table : x.followers >= 0 /\ x.following >= 0 /\ x.posts_count >= 0

\* upsert_profile of a dict with followers = -1, on an open connection with
\* no fault, over a store with records: it returned False and stored nothing
C18_Witness ==
    /\ IsOne /\ ReturnedFalse
    /\ call.conn = "open" /\ call.tx = "idle" /\ call.fault = "none"
    /\ WellFormed(call.arg0) /\ call.arg0.followers < 0
    /\ table # {} /\ table = call.pre

(* C19: normalization of engagement changes the caller's dicts and stays.  *)
(* After upsert_profile or upsert_profiles_batch, whether it returned True, *)
(* returned False or raised, every input dict has its keys of before and    *)
(* 'engagement', with the values of before and engagement 0 if it had       *)
(* none; and when the call returned True the record stored of each input    *)
(* dict has the engagement the dict has now.                                *)

NormalizedFrom(before, after) ==
    /\ DOMAIN after = DOMAIN before \cup {"engagement"}
    /\ \A k \in DOMAIN before : after[k] = before[k]
    /\ after.engagement = EngagementOf(before)

StoredEngagement(d) ==
    /\ RowsOf(table, d.username) # {}
    /\ \A x \in RowsOf(table, d.username) : x.engagement = d.engagement

C19_NormalizationStays ==
    /\ IsOne =>
          /\ NormalizedFrom(call.arg0, call.arg)
          /\ ReturnedTrue => StoredEngagement(call.arg)
    /\ IsBatch =>
          /\ Len(call.arg) = Len(call.arg0)
          /\ \A i \in DOMAIN call.arg0 : NormalizedFrom(call.arg0[i], call.arg[i])
          /\ ReturnedTrue => \A i \in DOMAIN call.arg : StoredEngagement(call.arg[i])

\* a batch rolled back when its commit failed: the dict that had no
\* engagement has engagement 0, and nothing of the batch is stored
C19_Witness ==
    /\ IsBatch /\ ReturnedFalse /\ call.fault = "commit"
    /\ Len(call.arg0) = 2
    /\ "engagement" \notin DOMAIN call.arg0[1]
    /\ call.arg[1].engagement = 0
    /\ "engagement" \in DOMAIN call.arg0[2]
    /\ call.arg0[2].engagement = 7 /\ call.arg[2] = call.arg0[2]
    /\ table = call.pre

(* C20: every record a run of the driver writes has engagement 0.  At any  *)
(* moment of a run a record that is not as it was before the run has        *)
(* engagement 0; once upsert_profiles_batch has returned True, every        *)
(* username of results has a record, with engagement 0 whatever it was      *)
(* before, and the records of the other usernames are those of before the   *)
(* run.                                                                     *)

InResults(u) == \E k \in DOMAIN results : results[k].username = u

C20_DriverEngagementZero ==
    /\ \A x \in table \ run.store0 : x.engagement = 0
    /\ run.batch = "True" =>
          /\ \A k \in DOMAIN results :
                /\ RowsOf(table, results[k].username) # {}
                /\ \A x \in RowsOf(table, results[k].username) : x.engagement = 0
          /\ {x \in table : ~InResults(x.username)}
                = {x \in run.store0 : ~InResults(x.username)}

\* a run that exited with code 0 after fetching "a" only, over a store that
\* held "a" and "b" with engagement 7: "a" has 0 now, "b" still 7
C20_Witness ==
    /\ pc = "exit" /\ run.code = 0 /\ run.batch = "True"
    /\ InResults("a") /\ ~InResults("b")
    /\ \A x \in RowsOf(run.store0, "a") : x.engagement = 7
    /\ \E x \in RowsOf(table, "a") : x.engagement = 0
    /\ \E x \in RowsOf(table, "b") : x.engagement = 7

=============================================================================
